---------------------------- MODULE Spec2Model ----------------------------
(***************************************************************************)
(* State-machine model of the ISIIS data-processing scripts.               *)
(*                                                                         *)
(* The repository is a set of independent scripts; each one is modelled    *)
(* by its own group of variables and its own specification:                *)
(*   MatchSpec   matchdepth.py     find_matching_timestamps                *)
(*   RenameSpec  matchdepth.py     filename scan + depth-rename loop       *)
(*   CsvSpec     change-path.py    change_image_paths                      *)
(*   VideoSpec   videos2mp4.py / videos2frames.py  worker-pool fan-out     *)
(*   ImagesSpec  choosing-data.py  get_all_images                          *)
(*   ViewerSpec  choosing-data.py  show_images review loop                 *)
(*   FillSpec    choosing-data.py  check_and_fill_images / copy_images     *)
(* While one script runs, the variables of the others stay at their idle   *)
(* values.                                                                 *)
(***************************************************************************)
EXTENDS Integers, Sequences, FiniteSets, TLC

VARIABLES
    \* ---- matchdepth.py : find_matching_timestamps
    df1,            \* log rows: sequence of [timestamp, depth]
    df2,            \* image rows: sequence of [iso_datetime, path]
    defase,         \* clock offset in seconds (argument)
    threshold,      \* tolerance in seconds (argument)
    results,        \* list of matches built by the loop
    match_i,        \* loop position of "for i, min_idx in enumerate(...)"
    \* ---- matchdepth.py : scan + rename loop
    files,          \* the image directory tree: set of [dir, stem, ext]
    run,            \* how many times the script has been started
    matching_timestamps, \* matches of the current run: sequence of [path, depth]
    rename_pos,     \* position of the rename loop in matching_timestamps
    rename_pc,      \* "ready" | "loop" | "finished"
    rename_log,     \* history: every os.rename that succeeded, [old, new, run]
    skip_log,       \* history: paths skipped because the stem ends with 'm'
    \* ---- change-path.py : change_image_paths
    csv_listing,    \* os.listdir(csv_folder): sequence of [csv, bad]
    csv_pos,        \* position of the for loop
    csv_changed,    \* indices of the files rewritten so far
    csv_pc,         \* "loop" | "done" | "caught"
    csv_content,    \* the rows of each file: sequence of [image_path, label]
    new_image_path, \* argument of change_image_paths
    csv_pass,       \* which application of change_image_paths is running
    csv_original,   \* history: the contents before the first application
    csv_first,      \* history: the contents after the first application
    \* ---- videos2mp4.py / videos2frames.py : process_videos
    video_files,    \* the .avi files found by os.walk, in walk order
    task,           \* task[k]: "queued" | "running" | "done" | "failed" | "killed"
    consumed,       \* how many results the parent has taken from imap
    pool_pc,        \* "map" | "completed" | "raised"
    written,        \* history: every output file written, [path, by]
    \* ---- choosing-data.py : get_all_images
    directory,      \* the files below the directory (indices into FileNames)
    all_images,     \* the returned list
    gai_pc,         \* "call" | "returned"
    \* ---- choosing-data.py : show_images
    view_dir,       \* files of the reviewed directory that still exist
    image_paths,    \* paths returned by upload_images_multiprocessing
    images,         \* surfaces returned; each remembers the path it was decoded from
    index_actual_image,
    images_to_delete,
    view_pc,        \* "load" | "running" | "stopping" | "deleting" | "returned"
    delete_pos,     \* position of the deletion loop
    delete_attempts,\* history: paths handed to os.remove, in order
    key_log,        \* history: the last key presses, [key, before, after]
    up_pressed,     \* history: the indices on which UP was pressed
    \* ---- choosing-data.py : check_and_fill_images / copy_images
    source_files,   \* files below source_directory: set of [dir, name]
    destination,    \* destination_directory: file name -> content
    number_of_images,
    fill_pc,        \* "check" | "copied" | "returned"
    destination_in_source, \* destination_directory lies below source_directory
    last_copy,      \* history: the last copy_images call
    \* ---- matchdepth.py : parse_log_file_to_dataframe
    log_lines,      \* lines of the log file: sequence of [hash, fields, blank_end, date_ok]
    log_columns,    \* len(column_names): the #LOG names and the four date names
    log_pos,        \* position of the loop over log_entries
    parsed_entries, \* list of rows: [line, len, parsed_datetime]
    errors,         \* list of the lines reported as errors
    log_pc,         \* "loop" | "frame" | "returned" | "raised"
    log_df          \* the DataFrame returned: sequence of [line, parsed_datetime]

matchVars  == <<df1, df2, defase, threshold, results, match_i>>
renameVars == <<files, run, matching_timestamps, rename_pos, rename_pc,
                rename_log, skip_log>>
csvVars    == <<csv_listing, csv_pos, csv_changed, csv_pc, csv_content,
                new_image_path, csv_pass, csv_original, csv_first>>
videoVars  == <<video_files, task, consumed, pool_pc, written>>
imagesVars == <<directory, all_images, gai_pc>>
viewerVars == <<view_dir, image_paths, images, index_actual_image,
                images_to_delete, view_pc, delete_pos, delete_attempts, key_log,
                up_pressed>>
fillVars   == <<source_files, destination, number_of_images, fill_pc,
                destination_in_source, last_copy>>
logVars    == <<log_lines, log_columns, log_pos, parsed_entries, errors, log_pc,
                log_df>>
vars == <<matchVars, renameVars, csvVars, videoVars, imagesVars, viewerVars,
          fillVars, logVars>>

\* what a step of one script leaves alone: the variables of all the others
notMatch  == <<renameVars, csvVars, videoVars, imagesVars, viewerVars, fillVars,
              logVars>>
notRename == <<matchVars, csvVars, videoVars, imagesVars, viewerVars, fillVars,
              logVars>>
notCsv    == <<matchVars, renameVars, videoVars, imagesVars, viewerVars, fillVars,
              logVars>>
notVideo  == <<matchVars, renameVars, csvVars, imagesVars, viewerVars, fillVars,
              logVars>>
notImages == <<matchVars, renameVars, csvVars, videoVars, viewerVars, fillVars,
              logVars>>
notViewer == <<matchVars, renameVars, csvVars, videoVars, imagesVars, fillVars,
              logVars>>
notFill   == <<matchVars, renameVars, csvVars, videoVars, imagesVars, viewerVars,
              logVars>>
notLog    == <<matchVars, renameVars, csvVars, videoVars, imagesVars, viewerVars,
              fillVars>>

-----------------------------------------------------------------------------
(* Generic helpers on sequences, used as Python's list/str operations.     *)

Abs(x) == IF x < 0 THEN -x ELSE x

Range(s) == {s[k] : k \in 1..Len(s)}

\* str.endswith / str.startswith on sequences of characters
EndsWith(s, suf) ==
    /\ Len(suf) <= Len(s)
    /\ SubSeq(s, Len(s) - Len(suf) + 1, Len(s)) = suf

StartsWith(s, pre) ==
    /\ Len(pre) <= Len(s)
    /\ SubSeq(s, 1, Len(pre)) = pre

\* s[-n:] : the last n elements, or all of s when it is shorter
LastN(s, n) == IF Len(s) <= n THEN s ELSE SubSeq(s, Len(s) - n + 1, Len(s))

\* the decimal digit of a number 0..9, as a character
DigitChar(n) == <<"0", "1", "2", "3", "4", "5", "6", "7", "8", "9">>[n + 1]

\* all sequences over S of length lo..hi
SeqsOf(S, lo, hi) == UNION {[1..n -> S] : n \in lo..hi}

\* the elements of a set of integers in increasing order
RECURSIVE SortedSeq(_)
SortedSeq(S) ==
    IF S = {} THEN <<>>
    ELSE LET m == CHOOSE x \in S : \A y \in S : x <= y
         IN  <<m>> \o SortedSeq(S \ {m})

-----------------------------------------------------------------------------
(***************************************************************************)
(* matchdepth.py : find_matching_timestamps                                *)
(*                                                                         *)
(* Timestamps are integers counting ticks of 1/TicksPerSec second, so that *)
(* image timestamps (millisecond resolution in the file names) can fall    *)
(* between the whole seconds of the log.                                   *)
(***************************************************************************)
TicksPerSec == 2
MaxTick == 3
MaxLog == 2
ImageRows == {1, 2}
Depths == {10, 20}
Thresholds == {0, 1}
Defases == {-1, 0, 1}

\* add_seconds(dt, seconds) = dt + timedelta(seconds=seconds)
add_seconds(dt, seconds) == dt + seconds * TicksPerSec

\* numpy's cast of a timedelta64 to timedelta64[s] divides by the unit and
\* rounds towards minus infinity (\div is the floor division).
WholeSeconds(d) == d \div TicksPerSec

\* df2['adjusted_iso_datetime']
adjusted_iso_datetime(i) == add_seconds(df2[i].iso_datetime, defase)

\* diff_matrix[i][j] = |(timestamp_j - adjusted_i) as whole seconds|
diff_matrix(i, j) == Abs(WholeSeconds(df1[j].timestamp - adjusted_iso_datetime(i)))

\* np.argmin(diff_matrix, axis=1)[i]: a left-to-right scan that keeps the
\* first index of the smallest value.
RECURSIVE ArgMinScan(_, _, _)
ArgMinScan(i, j, best) ==
    IF j > Len(df1) THEN best
    ELSE ArgMinScan(i, j + 1, IF diff_matrix(i, j) < diff_matrix(i, best) THEN j ELSE best)

RECURSIVE ArgMinLastScan(_, _, _)
ArgMinLastScan(i, j, best) ==
    IF j > Len(df1) THEN best
    ELSE ArgMinLastScan(i, j + 1, IF diff_matrix(i, j) <= diff_matrix(i, best) THEN j ELSE best)

ArgMinLast(i) == ArgMinLastScan(i, 2, 1)
min_indices(i) == ArgMinScan(i, 2, 1)

\* np.min(diff_matrix, axis=1)[i]
RECURSIVE MinScan(_, _, _)
MinScan(i, j, best) ==
    IF j > Len(df1) THEN best
    ELSE MinScan(i, j + 1, IF diff_matrix(i, j) < best THEN diff_matrix(i, j) ELSE best)

min_values(i) == MinScan(i, 2, diff_matrix(i, 1))

\* "if min_values[i] <= threshold"
WithinThreshold(i) == min_values(i) <= threshold

\* the tuple appended to results (raw = False: the depth column)
MatchEntry(i) ==
    [ts_img       |-> df1[min_indices(i)].timestamp,
     depth_rovctd |-> df1[min_indices(i)].depth,
     ts_rovctd    |-> df2[i].iso_datetime,
     img_path     |-> df2[i].path]

LogRows == [timestamp : 0..MaxTick, depth : Depths]

MatchInit ==
    /\ df1 \in SeqsOf(LogRows, 1, MaxLog)
    /\ \E ts \in [ImageRows -> 0..MaxTick] :
          df2 = [i \in ImageRows |-> [iso_datetime |-> ts[i], path |-> i]]
    /\ defase \in Defases
    /\ threshold \in Thresholds
    /\ results = <<>>
    /\ match_i = 1
    \* the other scripts are idle
    /\ files = {} /\ run = 0 /\ matching_timestamps = <<>> /\ rename_pos = 0
    /\ rename_pc = "idle" /\ rename_log = {} /\ skip_log = {}
    /\ csv_listing = <<>> /\ csv_pos = 0 /\ csv_changed = {} /\ csv_pc = "idle"
    /\ csv_content = <<>> /\ new_image_path = <<>> /\ csv_pass = 0
    /\ csv_original = <<>> /\ csv_first = <<>>
    /\ video_files = <<>> /\ task = <<>> /\ consumed = 0 /\ pool_pc = "idle"
    /\ written = {}
    /\ directory = {} /\ all_images = <<>> /\ gai_pc = "idle"
    /\ view_dir = {} /\ image_paths = <<>> /\ images = <<>>
    /\ index_actual_image = 0 /\ images_to_delete = <<>> /\ view_pc = "idle"
    /\ delete_pos = 0 /\ delete_attempts = <<>> /\ key_log = <<>>
    /\ up_pressed = {}
    /\ source_files = {} /\ destination = <<>> /\ number_of_images = 0
    /\ fill_pc = "idle" /\ last_copy = <<>> /\ destination_in_source = FALSE
    /\ log_lines = <<>> /\ log_columns = 0 /\ log_pos = 0 /\ parsed_entries = <<>>
    /\ errors = <<>> /\ log_pc = "idle" /\ log_df = <<>>

\* one iteration of "for i, min_idx in enumerate(min_indices)"
MatchStep ==
    /\ match_i \in 1..Len(df2)
    /\ results' = IF WithinThreshold(match_i)
                  THEN Append(results, MatchEntry(match_i))
                  ELSE results
    /\ match_i' = match_i + 1
    /\ UNCHANGED <<df1, df2, defase, threshold>>
    /\ UNCHANGED notMatch

MatchReturned == match_i = Len(df2) + 1

NextMatch == MatchStep

MatchSpec == MatchInit /\ [][NextMatch]_vars

\* C1: when find_matching_timestamps returns, an image row i has an entry in
\* the results iff some log row lies within threshold whole seconds of the
\* image's adjusted timestamp (the minimum distance is <= threshold); that
\* entry carries the depth and timestamp of the lowest-index log row that
\* attains the minimum distance; every image has at most one entry and the
\* entries are in image order.
ClaimDist(i, j) ==
    Abs((df1[j].timestamp - (df2[i].iso_datetime + defase * TicksPerSec)) \div TicksPerSec)

IsNearest(i, j) ==
    /\ \A k \in 1..Len(df1) : ClaimDist(i, j) <= ClaimDist(i, k)
    /\ \A k \in 1..(j - 1) : ClaimDist(i, k) > ClaimDist(i, j)

-----------------------------------------------------------------------------
(***************************************************************************)
(* choosing-data.py : get_all_images                                       *)
(*                                                                         *)
(* A file name is a sequence of characters.  The directory tree is a set   *)
(* of [dir, name]; os.walk visits every sub-directory.                     *)
(***************************************************************************)
MaxDirFiles == 2

image_extensions ==
    { <<".", "p", "n", "g">>, <<".", "j", "p", "g">>, <<".", "j", "p", "e", "g">>,
      <<".", "g", "i", "f">>, <<".", "b", "m", "p">>, <<".", "t", "i", "f", "f">> }

\* str.lower(), on the characters that occur in the modelled names
LowerChar(c) ==
    CASE c = "C" -> "c" [] c = "F" -> "f" [] c = "E" -> "e" [] c = "X" -> "x"
      [] c = "M" -> "m" [] c = "J" -> "j" [] c = "P" -> "p" [] c = "G" -> "g"
      [] OTHER -> c

Lower(s) == [k \in 1..Len(s) |-> LowerChar(s[k])]

CFE == <<"C", "F", "E">>

\* the condition of line 32 (and of line 130):
\*   file.lower().endswith(image_extensions) and file.startswith('CFE')
\*   and file.endswith('m' + file[-4:])
IsChosenImage(file) ==
    /\ \E ext \in image_extensions : EndsWith(Lower(file), ext)
    /\ StartsWith(file, CFE)
    /\ EndsWith(file, <<"m">> \o LastN(file, 4))

\* the file names the model draws from: <prefix>_1<marker><extension>
NamePrefixes == {CFE, <<"X", "F", "E">>}
NameMarkers == {<<"m">>, <<"M">>, <<>>}
NameExtensions ==
    image_extensions \cup {<<".", "J", "P", "G">>, <<".", "t", "x", "t">>}
FileNames ==
    {p \o <<"_", "1">> \o m \o e : p \in NamePrefixes, m \in NameMarkers,
                                    e \in NameExtensions}
DirNames == {"root", "sub"}
TreeFiles == [dir : DirNames, name : FileNames]

RECURSIVE SubsetsUpTo(_, _)
SubsetsUpTo(S, n) ==
    IF n = 0 THEN {{}}
    ELSE LET P == SubsetsUpTo(S, n - 1)
         IN  P \cup {T \cup {x} : T \in P, x \in S}

\* every listing of a finite set as a sequence without repetition
Orderings(S) ==
    {q \in [1..Cardinality(S) -> S] : \A a, b \in 1..Cardinality(S) : a # b => q[a] # q[b]}

ImagesInit ==
    /\ directory \in SubsetsUpTo(TreeFiles, MaxDirFiles)
    /\ all_images = <<>>
    /\ gai_pc = "call"
    \* the other scripts are idle
    /\ df1 = <<>> /\ df2 = <<>> /\ defase = 0 /\ threshold = 0
    /\ results = <<>> /\ match_i = 0
    /\ files = {} /\ run = 0 /\ matching_timestamps = <<>> /\ rename_pos = 0
    /\ rename_pc = "idle" /\ rename_log = {} /\ skip_log = {}
    /\ csv_listing = <<>> /\ csv_pos = 0 /\ csv_changed = {} /\ csv_pc = "idle"
    /\ csv_content = <<>> /\ new_image_path = <<>> /\ csv_pass = 0
    /\ csv_original = <<>> /\ csv_first = <<>>
    /\ video_files = <<>> /\ task = <<>> /\ consumed = 0 /\ pool_pc = "idle"
    /\ written = {}
    /\ view_dir = {} /\ image_paths = <<>> /\ images = <<>>
    /\ index_actual_image = 0 /\ images_to_delete = <<>> /\ view_pc = "idle"
    /\ delete_pos = 0 /\ delete_attempts = <<>> /\ key_log = <<>>
    /\ up_pressed = {}
    /\ source_files = {} /\ destination = <<>> /\ number_of_images = 0
    /\ fill_pc = "idle" /\ last_copy = <<>> /\ destination_in_source = FALSE
    /\ log_lines = <<>> /\ log_columns = 0 /\ log_pos = 0 /\ parsed_entries = <<>>
    /\ errors = <<>> /\ log_pc = "idle" /\ log_df = <<>>

\* get_all_images(directory): the chosen files, in the order os.walk yields them
get_all_images(tree) == Orderings({f \in tree : IsChosenImage(f.name)})

GetAllImages ==
    /\ gai_pc = "call"
    /\ all_images' \in get_all_images(directory)
    /\ gai_pc' = "returned"
    /\ UNCHANGED directory
    /\ UNCHANGED notImages

NextImages == GetAllImages

ImagesSpec == ImagesInit /\ [][NextImages]_vars

\* C4: get_all_images returns exactly the files of the tree whose name starts
\* with 'CFE', has one of the listed extensions, and has the depth marker 'm'
\* immediately before that extension -- for every listed extension, the
\* five-character ones included.
HasMarkedExtension(name) ==
    \E ext \in image_extensions :
        /\ EndsWith(Lower(name), ext)
        /\ Len(name) > Len(ext)
        /\ name[Len(name) - Len(ext)] = "m"

C4_ExactlyMarkedImages ==
    gai_pc = "returned" =>
        \A f \in directory :
            (f \in Range(all_images)) <=> (StartsWith(f.name, CFE) /\ HasMarkedExtension(f.name))

-----------------------------------------------------------------------------
(***************************************************************************)
(* change-path.py : change_image_paths                                     *)
(*                                                                         *)
(* os.listdir gives the entries of csv_folder; an entry is a .csv file or  *)
(* not, and a .csv file is bad when reading or rewriting it raises         *)
(* (unparsable file, no image_path column, a missing value in it).         *)
(***************************************************************************)
MaxCsv == 3

CsvEntries == [csv : BOOLEAN, bad : BOOLEAN]

\* A row of a file is [image_path, label]: the image_path cell and the cell
\* of one other column, both as texts.
CsvContents ==
    { <<>>,
      <<[image_path |-> <<"d", "/", "a">>, label |-> <<"0", "0", "7">>]>>,
      <<[image_path |-> <<"d", "/">>, label |-> <<"7">>]>>,
      <<[image_path |-> <<"d", "/", "a">>, label |-> <<"0", "0", "7">>],
        [image_path |-> <<"b">>, label |-> <<"x">>]>> }
NewImagePaths == { <<"n">>, <<"n", "/">> }

\* os.path.basename(x): what follows the last '/'
RECURSIVE basename(_)
basename(x) ==
    IF x = <<>> \/ x[Len(x)] = "/" THEN <<>>
    ELSE Append(basename(SubSeq(x, 1, Len(x) - 1)), x[Len(x)])

\* os.path.join(a, b)
join(a, b) ==
    IF b # <<>> /\ b[1] = "/" THEN b
    ELSE IF a = <<>> \/ a[Len(a)] = "/" THEN a \o b
    ELSE a \o <<"/">> \o b

\* pd.read_csv infers the type of a column: a column whose cells are all
\* digits is read as integers, and to_csv writes an integer without its
\* leading zeros; any other column is read and written as text.
IsDigits(text) ==
    text # <<>> /\ \A k \in 1..Len(text) : text[k] \in Range(<<"0", "1", "7">>)
RECURSIVE IntegerText(_)
IntegerText(text) ==
    IF Len(text) > 1 /\ text[1] = "0" THEN IntegerText(Tail(text)) ELSE text
IsIntegerColumn(rows) ==
    rows # <<>> /\ \A r \in 1..Len(rows) : IsDigits(rows[r].label)

\* lines 23-29: read_csv, the apply on the image_path column, to_csv
RewrittenFile(rows, new_path) ==
    [r \in 1..Len(rows) |->
        [image_path |-> join(new_path, basename(rows[r].image_path)),
         label      |-> IF IsIntegerColumn(rows)
                        THEN IntegerText(rows[r].label) ELSE rows[r].label]]

CsvInit ==
    /\ csv_listing \in SeqsOf(CsvEntries, 1, MaxCsv)
    /\ csv_content \in [1..Len(csv_listing) -> CsvContents]
    /\ \A k \in 1..Len(csv_listing) :
          csv_listing[k].bad => csv_content[k] = <<>>
    /\ new_image_path \in NewImagePaths
    /\ csv_pass = 1
    /\ csv_original = csv_content
    /\ csv_first = <<>>
    /\ csv_pos = 1
    /\ csv_changed = {}
    /\ csv_pc = "loop"
    \* the other scripts are idle
    /\ df1 = <<>> /\ df2 = <<>> /\ defase = 0 /\ threshold = 0
    /\ results = <<>> /\ match_i = 0
    /\ files = {} /\ run = 0 /\ matching_timestamps = <<>> /\ rename_pos = 0
    /\ rename_pc = "idle" /\ rename_log = {} /\ skip_log = {}
    /\ video_files = <<>> /\ task = <<>> /\ consumed = 0 /\ pool_pc = "idle"
    /\ written = {}
    /\ directory = {} /\ all_images = <<>> /\ gai_pc = "idle"
    /\ view_dir = {} /\ image_paths = <<>> /\ images = <<>>
    /\ index_actual_image = 0 /\ images_to_delete = <<>> /\ view_pc = "idle"
    /\ delete_pos = 0 /\ delete_attempts = <<>> /\ key_log = <<>>
    /\ up_pressed = {}
    /\ source_files = {} /\ destination = <<>> /\ number_of_images = 0
    /\ fill_pc = "idle" /\ last_copy = <<>> /\ destination_in_source = FALSE
    /\ log_lines = <<>> /\ log_columns = 0 /\ log_pos = 0 /\ parsed_entries = <<>>
    /\ errors = <<>> /\ log_pc = "idle" /\ log_df = <<>>

\* one iteration of "for filename in os.listdir(csv_folder)"; the try block
\* encloses the whole loop, so an exception leaves the loop for the handler.
CsvIteration ==
    /\ csv_pc = "loop"
    /\ csv_pos \in 1..Len(csv_listing)
    /\ LET entry == csv_listing[csv_pos] IN
          \/ /\ ~entry.csv                       \* not a .csv file: next entry
             /\ csv_pos' = csv_pos + 1
             /\ UNCHANGED <<csv_changed, csv_pc, csv_content>>
          \/ /\ entry.csv /\ ~entry.bad          \* read, rewrite the column, save
             /\ csv_content' = [csv_content EXCEPT ![csv_pos] =
                                   RewrittenFile(@, new_image_path)]
             /\ csv_changed' = csv_changed \cup {csv_pos}
             /\ csv_pos' = csv_pos + 1
             /\ UNCHANGED csv_pc
          \/ /\ entry.csv /\ entry.bad           \* raises: "An error occurred"
             /\ csv_pc' = "caught"
             /\ UNCHANGED <<csv_pos, csv_changed, csv_content>>
    /\ UNCHANGED <<csv_listing, new_image_path, csv_pass, csv_original, csv_first>>
    /\ UNCHANGED notCsv

\* the loop runs off the end of the listing
CsvLoopEnd ==
    /\ csv_pc = "loop"
    /\ csv_pos = Len(csv_listing) + 1
    /\ csv_pc' = "done"
    /\ UNCHANGED <<csv_listing, csv_pos, csv_changed, csv_content, new_image_path,
                   csv_pass, csv_original, csv_first>>
    /\ UNCHANGED notCsv

\* change_image_paths is called again on the same folder with the same
\* new_image_path
CsvAgain ==
    /\ csv_pc \in {"done", "caught"}
    /\ csv_pass = 1
    /\ csv_pass' = csv_pass + 1
    /\ csv_first' = csv_content
    /\ csv_pos' = 1
    /\ csv_pc' = "loop"
    /\ UNCHANGED <<csv_listing, csv_changed, csv_content, new_image_path,
                   csv_original>>
    /\ UNCHANGED notCsv

NextCsv == CsvIteration \/ CsvLoopEnd \/ CsvAgain

CsvSpec == CsvInit /\ [][NextCsv]_vars

\* C2: best effort per file -- when change_image_paths has returned, every
\* .csv file of the folder that can be processed has been processed, whatever
\* happened to the other files.
C2_FailureDoesNotStopOthers ==
    csv_pc \in {"done", "caught"} =>
        \A k \in 1..Len(csv_listing) :
            (csv_listing[k].csv /\ ~csv_listing[k].bad) => k \in csv_changed

\* what the claimed rewriting makes of the rows of a .csv file
ClaimedFile(rows) ==
    [r \in 1..Len(rows) |->
        [image_path |-> join(new_image_path, basename(rows[r].image_path)),
         label      |-> rows[r].label]]

\* C13: when change_image_paths is through, every .csv file of the folder
\* has the rows it had, in the same order, with image_path replaced by
\* new_image_path joined with the base name of the old value and the other
\* column as it was; every other file is as it was; and after a second
\* application with the same new_image_path the files are as after the first.
C13_PathsRewritten ==
    csv_pc \in {"done", "caught"} =>
        /\ \A k \in 1..Len(csv_listing) :
              csv_content[k] = IF csv_listing[k].csv
                               THEN ClaimedFile(csv_original[k])
                               ELSE csv_original[k]
        /\ csv_pass > 1 => csv_content = csv_first

-----------------------------------------------------------------------------
(***************************************************************************)
(* videos2mp4.py / videos2frames.py : process_videos                       *)
(*                                                                         *)
(* A video is [dir, name]: dir is the list of sub-directories between      *)
(* input_dir and the file, name is the file name as characters.            *)
(***************************************************************************)
MaxVideos == 2
PoolSize == 2

DotAvi == <<".", "a", "v", "i">>
DotMp4 == <<".", "m", "p", "4">>
DotJpg == <<".", "j", "p", "g">>

VideoNames ==
    { <<"a">> \o DotAvi,          \* a.avi
      DotAvi,                     \* .avi
      DotAvi \o DotAvi,           \* .avi.avi
      <<"a", ".", "t", "x", "t">> }
VideoDirs == { <<>>, <<"d">> }
InputTree == [dir : VideoDirs, name : VideoNames]
FrameNumbers == {0, 1}

\* os.path.splitext(name)[0]: cut at the last dot, unless only dots precede it
LastDot(name) ==
    IF \E k \in 1..Len(name) : name[k] = "."
    THEN CHOOSE k \in 1..Len(name) :
            name[k] = "." /\ \A j \in (k + 1)..Len(name) : name[j] # "."
    ELSE 0

video_name(name) ==
    IF LastDot(name) > 0 /\ \E k \in 1..(LastDot(name) - 1) : name[k] # "."
    THEN SubSeq(name, 1, LastDot(name) - 1)
    ELSE name

\* process_video_file: output_dir = base_output_dir joined with sub_dirs[:-1]
output_dir(video) == video.dir

\* convert_avi_to_mp4: output_mp4 = output_dir/<video_name>.mp4
output_mp4(video) ==
    [dir |-> output_dir(video), file |-> video_name(video.name) \o DotMp4]

\* extract_frames: frame_path = output_dir/<video_name>_<saved_frames:04d>.jpg
frame_path(video, saved_frames) ==
    [dir |-> output_dir(video),
     file |-> video_name(video.name)
                 \o <<"_", "0", "0", "0", DigitChar(saved_frames)>> \o DotJpg]

TaskCount == Len(video_files)
Running == {k \in 1..TaskCount : task[k] \in {"checked", "writing"}}

VideoInit ==
    /\ \E tree \in SubsetsUpTo(InputTree, MaxVideos) :
          video_files \in Orderings({f \in tree : EndsWith(f.name, DotAvi)})
    /\ task = [k \in 1..Len(video_files) |-> "queued"]
    /\ consumed = 0
    /\ pool_pc = "map"
    /\ written = {}
    \* the other scripts are idle
    /\ df1 = <<>> /\ df2 = <<>> /\ defase = 0 /\ threshold = 0
    /\ results = <<>> /\ match_i = 0
    /\ files = {} /\ run = 0 /\ matching_timestamps = <<>> /\ rename_pos = 0
    /\ rename_pc = "idle" /\ rename_log = {} /\ skip_log = {}
    /\ csv_listing = <<>> /\ csv_pos = 0 /\ csv_changed = {} /\ csv_pc = "idle"
    /\ csv_content = <<>> /\ new_image_path = <<>> /\ csv_pass = 0
    /\ csv_original = <<>> /\ csv_first = <<>>
    /\ directory = {} /\ all_images = <<>> /\ gai_pc = "idle"
    /\ view_dir = {} /\ image_paths = <<>> /\ images = <<>>
    /\ index_actual_image = 0 /\ images_to_delete = <<>> /\ view_pc = "idle"
    /\ delete_pos = 0 /\ delete_attempts = <<>> /\ key_log = <<>>
    /\ up_pressed = {}
    /\ source_files = {} /\ destination = <<>> /\ number_of_images = 0
    /\ fill_pc = "idle" /\ last_copy = <<>> /\ destination_in_source = FALSE
    /\ log_lines = <<>> /\ log_columns = 0 /\ log_pos = 0 /\ parsed_entries = <<>>
    /\ errors = <<>> /\ log_pc = "idle" /\ log_df = <<>>

\* a free worker takes the next task of imap (tasks are handed out in order)
\* and runs process_video_file up to the os.path.exists test of
\* convert_avi_to_mp4: an existing output ends the task at once.
TaskStart(k) ==
    /\ pool_pc = "map"
    /\ task[k] = "queued"
    /\ \A j \in 1..(k - 1) : task[j] # "queued"
    /\ Cardinality(Running) < PoolSize
    /\ task' = [task EXCEPT ![k] =
                   IF \E w \in written : w.path = output_mp4(video_files[k])
                   THEN "done" ELSE "checked"]
    /\ UNCHANGED <<video_files, consumed, pool_pc, written>>
    /\ UNCHANGED notVideo

\* ffmpeg creates the output file
TaskWrite(k) ==
    /\ pool_pc = "map"
    /\ task[k] = "checked"
    /\ task' = [task EXCEPT ![k] = "writing"]
    /\ written' = written \cup {[path |-> output_mp4(video_files[k]), by |-> k]}
    /\ UNCHANGED <<video_files, consumed, pool_pc>>
    /\ UNCHANGED notVideo

\* ffmpeg ends and the worker returns
TaskDone(k) ==
    /\ pool_pc = "map"
    /\ task[k] = "writing"
    /\ task' = [task EXCEPT ![k] = "done"]
    /\ UNCHANGED <<video_files, consumed, pool_pc, written>>
    /\ UNCHANGED notVideo

\* the worker raises (makedirs or ffmpeg fails); nothing in the worker catches it
TaskFail(k) ==
    /\ pool_pc = "map"
    /\ task[k] \in {"checked", "writing"}
    /\ task' = [task EXCEPT ![k] = "failed"]
    /\ UNCHANGED <<video_files, consumed, pool_pc, written>>
    /\ UNCHANGED notVideo

\* list(pool.imap(...)) takes the next result, in task order
ParentNext ==
    /\ pool_pc = "map"
    /\ consumed < TaskCount
    /\ task[consumed + 1] = "done"
    /\ consumed' = consumed + 1
    /\ UNCHANGED <<video_files, task, pool_pc, written>>
    /\ UNCHANGED notVideo

\* the next result is an exception: imap re-raises it in the parent, and
\* leaving the with-block terminates the pool
ParentRaise ==
    /\ pool_pc = "map"
    /\ consumed < TaskCount
    /\ task[consumed + 1] = "failed"
    /\ pool_pc' = "raised"
    /\ task' = [k \in 1..TaskCount |->
                   IF task[k] \in {"queued", "checked", "writing"} THEN "killed"
                   ELSE task[k]]
    /\ UNCHANGED <<video_files, consumed, written>>
    /\ UNCHANGED notVideo

\* every result was taken: "Conversion and frame extraction completed."
ParentComplete ==
    /\ pool_pc = "map"
    /\ consumed = TaskCount
    /\ pool_pc' = "completed"
    /\ UNCHANGED <<video_files, task, consumed, written>>
    /\ UNCHANGED notVideo

NextVideo ==
    \/ \E k \in 1..TaskCount : TaskStart(k)
    \/ \E k \in 1..TaskCount : TaskWrite(k)
    \/ \E k \in 1..TaskCount : TaskDone(k)
    \/ \E k \in 1..TaskCount : TaskFail(k)
    \/ ParentNext
    \/ ParentRaise
    \/ ParentComplete

VideoSpec == VideoInit /\ [][NextVideo]_vars

\* C3: the workers share no output -- for any two distinct .avi files found
\* under input_dir the output paths of one (its .mp4, its frame files) are
\* disjoint from the output paths of the other, and no output file is
\* written by two workers, whatever the interleaving.
OutputPaths(video) ==
    {output_mp4(video)} \cup {frame_path(video, n) : n \in FrameNumbers}

C3_DisjointOutputs ==
    /\ \A w1, w2 \in written : w1.path = w2.path => w1.by = w2.by
    /\ pool_pc = "completed" =>
          \A k1, k2 \in 1..TaskCount :
              k1 # k2 => OutputPaths(video_files[k1]) \cap OutputPaths(video_files[k2]) = {}

-----------------------------------------------------------------------------
(***************************************************************************)
(* matchdepth.py : filename scan and depth-rename loop                     *)
(*                                                                         *)
(* A file is [dir, stem, ext].  The stem is a sequence of pieces of text:  *)
(* a piece matched by the filename pattern, other text, and the pieces the *)
(* rename appends ("_", the formatted depth, "m").                         *)
(***************************************************************************)
MaxFiles == 2
MaxRuns == 2

\* text matched by  CFE_(.*?)-(\d+)-(\d{4}-\d{2}-\d{2} \d{2}-\d{2}-\d{2}\.\d{3})_(\d{4})
PatternTexts ==
    { "CFE_cam-1-2024-08-21 10-00-00.000_0001",
      "CFE_cam-1-2024-08-21 10-00-00.000_0002" }
\* f'{depth}' for the depth of the matched log row
DepthTexts == {"12.5", "nan"}

InitialStems ==
    {<<p>> : p \in PatternTexts}
        \cup {<<"CFE_cam-1-2024-08-21 10-00-00.000_0001", "m">>, <<"notes">>}
ImageDirs == {"d1"}
InitialFiles == [dir : ImageDirs, stem : InitialStems, ext : {".jpg", ".png"}]

\* re.findall(pattern, file) is not empty
MatchesPattern(file) == \E k \in 1..Len(file.stem) : file.stem[k] \in PatternTexts

\* lines 300-305: the files the scan puts into iso_datetime_df
Scanned == {f \in files : f.ext = ".jpg" /\ MatchesPattern(f)}

\* original_name.endswith('m')
NeverEndsWithM(original_name) == FALSE
EndsWithM(original_name) ==
    Len(original_name) > 0 /\ original_name[Len(original_name)] = "m"

\* new_file_path: <dir>/<original_name>_<depth>m<extension>
new_file_path(path, depth) ==
    [dir |-> path.dir, stem |-> path.stem \o <<"_", depth, "m">>, ext |-> path.ext]

RenameInit ==
    /\ files \in SubsetsUpTo(InitialFiles, MaxFiles)
    /\ run = 0
    /\ matching_timestamps = <<>>
    /\ rename_pos = 0
    /\ rename_pc = "ready"
    /\ rename_log = {}
    /\ skip_log = {}
    \* the other scripts are idle
    /\ df1 = <<>> /\ df2 = <<>> /\ defase = 0 /\ threshold = 0
    /\ results = <<>> /\ match_i = 0
    /\ csv_listing = <<>> /\ csv_pos = 0 /\ csv_changed = {} /\ csv_pc = "idle"
    /\ csv_content = <<>> /\ new_image_path = <<>> /\ csv_pass = 0
    /\ csv_original = <<>> /\ csv_first = <<>>
    /\ video_files = <<>> /\ task = <<>> /\ consumed = 0 /\ pool_pc = "idle"
    /\ written = {}
    /\ directory = {} /\ all_images = <<>> /\ gai_pc = "idle"
    /\ view_dir = {} /\ image_paths = <<>> /\ images = <<>>
    /\ index_actual_image = 0 /\ images_to_delete = <<>> /\ view_pc = "idle"
    /\ delete_pos = 0 /\ delete_attempts = <<>> /\ key_log = <<>>
    /\ up_pressed = {}
    /\ source_files = {} /\ destination = <<>> /\ number_of_images = 0
    /\ fill_pc = "idle" /\ last_copy = <<>> /\ destination_in_source = FALSE
    /\ log_lines = <<>> /\ log_columns = 0 /\ log_pos = 0 /\ parsed_entries = <<>>
    /\ errors = <<>> /\ log_pc = "idle" /\ log_df = <<>>

\* the script is started: the scan, then find_matching_timestamps, which
\* keeps some of the scanned images (those with a log row within the
\* threshold), each once and with the depth of its log row.
RenameStart ==
    /\ rename_pc \in {"ready", "finished"}
    /\ run < MaxRuns
    /\ run' = run + 1
    /\ \E matched \in SUBSET Scanned :
          \E order \in Orderings(matched) :
             \E depth \in [1..Cardinality(matched) -> DepthTexts] :
                matching_timestamps' =
                    [k \in 1..Cardinality(matched) |->
                        [path |-> order[k], depth |-> depth[k]]]
    /\ rename_pos' = 1
    /\ rename_pc' = "loop"
    /\ UNCHANGED <<files, rename_log, skip_log>>
    /\ UNCHANGED notRename

\* one iteration of "for ts1, depth, ts2, path in matching_timestamps"
RenameIteration ==
    /\ rename_pc = "loop"
    /\ rename_pos \in 1..Len(matching_timestamps)
    /\ LET path  == matching_timestamps[rename_pos].path
           depth == matching_timestamps[rename_pos].depth
       IN  \/ /\ EndsWithM(path.stem)            \* "Skipping ... as it ends with 'm'"
              /\ skip_log' = skip_log \cup {[path |-> path, run |-> run]}
              /\ UNCHANGED <<files, rename_log>>
           \/ /\ ~EndsWithM(path.stem)           \* os.rename succeeds
              /\ path \in files
              /\ files' = (files \ {path}) \cup {new_file_path(path, depth)}
              /\ rename_log' = rename_log \cup
                    {[old |-> path, new |-> new_file_path(path, depth), run |-> run]}
              /\ UNCHANGED skip_log
           \/ /\ ~EndsWithM(path.stem)           \* os.rename raises: "Error renaming"
              /\ UNCHANGED <<files, rename_log, skip_log>>
    /\ rename_pos' = rename_pos + 1
    /\ UNCHANGED <<run, matching_timestamps, rename_pc>>
    /\ UNCHANGED notRename

RenameLoopEnd ==
    /\ rename_pc = "loop"
    /\ rename_pos = Len(matching_timestamps) + 1
    /\ rename_pc' = "finished"
    /\ UNCHANGED <<files, run, matching_timestamps, rename_pos, rename_log, skip_log>>
    /\ UNCHANGED notRename

NextRename == RenameStart \/ RenameIteration \/ RenameLoopEnd

RenameSpec == RenameInit /\ [][NextRename]_vars

\* C8: the rename step is idempotent.  Every rename ever made took a file
\* whose stem did not end with 'm' to <stem>_<depth>m<ext> in the same
\* directory; no file that is the result of a rename is renamed again, in
\* the same or a later run; so no file name ever carries two depth suffixes.
DepthSuffixes(stem) ==
    Cardinality({k \in 1..Len(stem) :
        /\ k + 2 <= Len(stem)
        /\ stem[k] = "_" /\ stem[k + 1] \in DepthTexts /\ stem[k + 2] = "m"})

C8_RenameIdempotent ==
    /\ \A r \in rename_log :
          /\ r.old.stem[Len(r.old.stem)] # "m"
          /\ r.new.dir = r.old.dir
          /\ r.new.ext = r.old.ext
          /\ \E d \in DepthTexts : r.new.stem = r.old.stem \o <<"_", d, "m">>
    /\ \A r1, r2 \in rename_log : r2.old # r1.new
    /\ \A r1, r2 \in rename_log : r1.old = r2.old => r1 = r2
    /\ \A f \in files : DepthSuffixes(f.stem) <= 1

\* the second run has finished; it met a file renamed by the first run and
\* skipped it
C8_Witness ==
    /\ run = 2
    /\ rename_pc = "finished"
    /\ \E r \in rename_log :
          /\ r.run = 1
          /\ r.new \in files
          /\ [path |-> r.new, run |-> 2] \in skip_log

-----------------------------------------------------------------------------
(***************************************************************************)
(* choosing-data.py : upload_images_multiprocessing and show_images        *)
(*                                                                         *)
(* The reviewed directory holds files numbered 0..MaxView: file 0 is a     *)
(* name without depth marker, files 1.. are images with the marker.  Two   *)
(* images of the directory never have the same content, so a surface is    *)
(* identified by the number of the file it was decoded from.               *)
(***************************************************************************)
MaxView == 3

ViewName(id) ==
    IF id = 0 THEN CFE \o <<"_", "0">> \o DotJpg
    ELSE CFE \o <<"_", DigitChar(id), "m">> \o DotJpg

\* lines 126-132: the paths collected by os.walk, in walk order
CollectedPaths(dir) == SortedSeq({id \in dir : IsChosenImage(ViewName(id))})

\* lines 134-161: pool.map(read_image), the None results filtered out, the
\* rest converted with failures skipped; unusable is the set of files whose
\* read or conversion fails.  The paths list is returned as collected.
LoadedImages(paths, unusable) == SelectSeq(paths, LAMBDA p : p \notin unusable)

num_images == Len(images)

\* the key handlers of the main loop
KeyLeftNoWrap(index, n) == index - 1
KeyLeftIndex(index, n) == (index - 1) % n
KeyRightIndex(index, n) == (index + 1) % n

\* K_UP: "if index_actual_image not in images_to_delete: ...append(...)"
MarkAgain(to_delete, index) == Append(to_delete, index)
MarkForDeletion(to_delete, index) ==
    IF index \notin Range(to_delete) THEN Append(to_delete, index) ELSE to_delete

KeyLogLen == IF num_images < 2 THEN 2 ELSE num_images
Logged(key, before, after) ==
    LET all == Append(key_log, [key |-> key, before |-> before, after |-> after])
    IN  IF Len(all) > KeyLogLen THEN Tail(all) ELSE all

ViewerInit ==
    /\ view_dir \in SUBSET (0..MaxView)
    /\ image_paths = <<>>
    /\ images = <<>>
    /\ index_actual_image = 0
    /\ images_to_delete = <<>>
    /\ view_pc = "load"
    /\ delete_pos = 0
    /\ delete_attempts = <<>>
    /\ key_log = <<>>
    /\ up_pressed = {}
    \* the other scripts are idle
    /\ df1 = <<>> /\ df2 = <<>> /\ defase = 0 /\ threshold = 0
    /\ results = <<>> /\ match_i = 0
    /\ files = {} /\ run = 0 /\ matching_timestamps = <<>> /\ rename_pos = 0
    /\ rename_pc = "idle" /\ rename_log = {} /\ skip_log = {}
    /\ csv_listing = <<>> /\ csv_pos = 0 /\ csv_changed = {} /\ csv_pc = "idle"
    /\ csv_content = <<>> /\ new_image_path = <<>> /\ csv_pass = 0
    /\ csv_original = <<>> /\ csv_first = <<>>
    /\ video_files = <<>> /\ task = <<>> /\ consumed = 0 /\ pool_pc = "idle"
    /\ written = {}
    /\ directory = {} /\ all_images = <<>> /\ gai_pc = "idle"
    /\ source_files = {} /\ destination = <<>> /\ number_of_images = 0
    /\ fill_pc = "idle" /\ last_copy = <<>> /\ destination_in_source = FALSE
    /\ log_lines = <<>> /\ log_columns = 0 /\ log_pos = 0 /\ parsed_entries = <<>>
    /\ errors = <<>> /\ log_pc = "idle" /\ log_df = <<>>

\* lines 172-192: load the images; leave at once when there is none
ViewerLoad ==
    /\ view_pc = "load"
    /\ \E unusable \in SUBSET view_dir :
          /\ image_paths' = CollectedPaths(view_dir)
          /\ images' = LoadedImages(CollectedPaths(view_dir), unusable)
          /\ view_pc' = IF LoadedImages(CollectedPaths(view_dir), unusable) = <<>>
                        THEN "returned" ELSE "running"
    /\ UNCHANGED <<view_dir, index_actual_image, images_to_delete, delete_pos,
                   delete_attempts, key_log, up_pressed>>
    /\ UNCHANGED notViewer

KeyLeft ==
    /\ view_pc \in {"running", "stopping"}
    /\ index_actual_image' = KeyLeftIndex(index_actual_image, num_images)
    /\ key_log' = Logged("LEFT", index_actual_image,
                         KeyLeftIndex(index_actual_image, num_images))
    /\ UNCHANGED <<view_dir, image_paths, images, images_to_delete, view_pc,
                   delete_pos, delete_attempts, up_pressed>>
    /\ UNCHANGED notViewer

KeyRight ==
    /\ view_pc \in {"running", "stopping"}
    /\ index_actual_image' = KeyRightIndex(index_actual_image, num_images)
    /\ key_log' = Logged("RIGHT", index_actual_image,
                         KeyRightIndex(index_actual_image, num_images))
    /\ UNCHANGED <<view_dir, image_paths, images, images_to_delete, view_pc,
                   delete_pos, delete_attempts, up_pressed>>
    /\ UNCHANGED notViewer

KeyUp ==
    /\ view_pc \in {"running", "stopping"}
    /\ images_to_delete' = MarkForDeletion(images_to_delete, index_actual_image)
    /\ key_log' = Logged("UP", index_actual_image, index_actual_image)
    /\ up_pressed' = up_pressed \cup {index_actual_image}
    /\ UNCHANGED <<view_dir, image_paths, images, index_actual_image, view_pc,
                   delete_pos, delete_attempts>>
    /\ UNCHANGED notViewer

\* the QUIT event: running = False.  The events that pygame.event.get()
\* returned after it in the same batch are still handled.
ViewerQuit ==
    /\ view_pc = "running"
    /\ view_pc' = "stopping"
    /\ UNCHANGED <<view_dir, image_paths, images, index_actual_image,
                   images_to_delete, delete_pos, delete_attempts, key_log,
                   up_pressed>>
    /\ UNCHANGED notViewer

\* the batch is through and "while running" ends; the deletion loop starts
ViewerLoopExit ==
    /\ view_pc = "stopping"
    /\ view_pc' = "deleting"
    /\ delete_pos' = 1
    /\ UNCHANGED <<view_dir, image_paths, images, index_actual_image,
                   images_to_delete, delete_attempts, key_log, up_pressed>>
    /\ UNCHANGED notViewer

\* one iteration of "for index in images_to_delete"
DeleteIteration ==
    /\ view_pc = "deleting"
    /\ delete_pos \in 1..Len(images_to_delete)
    /\ LET current_image_path == image_paths[images_to_delete[delete_pos] + 1] IN
          /\ delete_attempts' = Append(delete_attempts, current_image_path)
          /\ \/ view_dir' = view_dir \ {current_image_path}   \* os.remove
             \/ view_dir' = view_dir                          \* os.remove raises
    /\ delete_pos' = delete_pos + 1
    /\ UNCHANGED <<image_paths, images, index_actual_image, images_to_delete,
                   view_pc, key_log, up_pressed>>
    /\ UNCHANGED notViewer

DeleteLoopEnd ==
    /\ view_pc = "deleting"
    /\ delete_pos = Len(images_to_delete) + 1
    /\ view_pc' = "returned"
    /\ UNCHANGED <<view_dir, image_paths, images, index_actual_image,
                   images_to_delete, delete_pos, delete_attempts, key_log,
                   up_pressed>>
    /\ UNCHANGED notViewer

NextViewer ==
    \/ ViewerLoad
    \/ KeyLeft
    \/ KeyRight
    \/ KeyUp
    \/ ViewerQuit
    \/ ViewerLoopExit
    \/ DeleteIteration
    \/ DeleteLoopEnd

ViewerSpec == ViewerInit /\ [][NextViewer]_vars

\* C9: the image shown at index k was decoded from image_paths[k], for every
\* k, also when some files could not be read or converted; so the file
\* removed for a marked index is the file of the image that was on screen.
C9_ImagesAlignedWithPaths ==
    view_pc # "load" =>
        /\ Len(images) <= Len(image_paths)
        /\ \A k \in 1..Len(images) : images[k] = image_paths[k]

\* C10: the current index always lies in 0..num_images-1; LEFT and RIGHT move
\* by one with wrap-around, UP does not move; a LEFT followed by a RIGHT, and
\* num_images RIGHTs in a row, come back to the index they started from.
C10_IndexInRange ==
    view_pc \in {"running", "stopping", "deleting"} =>
        /\ index_actual_image \in 0..(num_images - 1)
        /\ \A k \in 1..Len(key_log) :
              LET e == key_log[k] IN
                 /\ e.before \in 0..(num_images - 1)
                 /\ e.after \in 0..(num_images - 1)
                 /\ e.key = "LEFT" =>
                       e.after = IF e.before = 0 THEN num_images - 1 ELSE e.before - 1
                 /\ e.key = "RIGHT" =>
                       e.after = IF e.before = num_images - 1 THEN 0 ELSE e.before + 1
                 /\ e.key = "UP" => e.after = e.before
        /\ \A k \in 1..(Len(key_log) - 1) :
              /\ key_log[k + 1].before = key_log[k].after
              /\ (key_log[k].key = "LEFT" /\ key_log[k + 1].key = "RIGHT")
                    => key_log[k + 1].after = key_log[k].before
        /\ Len(key_log) > 0 => key_log[Len(key_log)].after = index_actual_image
        /\ (/\ Len(key_log) >= num_images
            /\ \A k \in (Len(key_log) - num_images + 1)..Len(key_log) :
                  key_log[k].key = "RIGHT")
              => key_log[Len(key_log)].after
                     = key_log[Len(key_log) - num_images + 1].before

\* LEFT pressed on the first of at least two images (wrapping to the last),
\* then RIGHT
C10_Witness ==
    /\ view_pc = "running"
    /\ num_images >= 2
    /\ \E k \in 1..(Len(key_log) - 1) :
          /\ key_log[k].key = "LEFT"
          /\ key_log[k].before = 0
          /\ key_log[k].after = num_images - 1
          /\ key_log[k + 1].key = "RIGHT"

\* the files of the indices on which UP was pressed
MarkedPaths == {image_paths[i + 1] : i \in up_pressed}

C11_State ==
    /\ view_pc \in {"load", "running", "stopping"} => delete_attempts = <<>>
    /\ view_pc \in {"deleting", "returned"} =>
          /\ Len(delete_attempts) <= Cardinality(up_pressed)
          /\ Range(delete_attempts) \subseteq MarkedPaths
          /\ \A a, b \in 1..Len(delete_attempts) :
                a # b => delete_attempts[a] # delete_attempts[b]
    /\ view_pc = "returned" =>
          /\ Range(delete_attempts) = MarkedPaths
          /\ Len(delete_attempts) = Cardinality(up_pressed)

C11_Step ==
    /\ view_dir' \subseteq view_dir
    /\ view_dir' # view_dir => view_pc = "deleting"
    /\ (view_dir \ view_dir') \subseteq MarkedPaths
    /\ delete_attempts' # delete_attempts => view_pc = "deleting"

\* C11: no deletion is attempted and no file disappears while the review loop
\* runs; after the loop has ended the files handed to os.remove are exactly
\* the files of the indices on which UP was pressed, each once however often
\* UP was pressed on it; a file of an index never marked is never removed.
C11_DeleteOnlyMarkedAfterQuit == []C11_State /\ [][C11_Step]_vars

\* show_images has returned after UP was pressed twice in a row on one of at
\* least two images, another image was never marked, and a file was removed
C11_Witness ==
    /\ view_pc = "returned"
    /\ num_images >= 2
    /\ \E k \in 1..(Len(key_log) - 1) :
          /\ key_log[k].key = "UP"
          /\ key_log[k + 1].key = "UP"
          /\ key_log[k].before = key_log[k + 1].before
    /\ \E i \in 0..(num_images - 1) : i \notin up_pressed
    /\ Len(delete_attempts) = 1
    /\ delete_attempts[1] \notin view_dir

-----------------------------------------------------------------------------
(***************************************************************************)
(* choosing-data.py : copy_images and check_and_fill_images                *)
(*                                                                         *)
(* Files are named as in the viewer: number 0 has no depth marker, the     *)
(* numbers from 1 are images with the marker.  A source file is [dir, id]; *)
(* the destination directory maps the ids of its files to their content,   *)
(* the source file the content comes from ([dir |-> "old"] for a file that *)
(* was there from the start).  In __main__ the destination directory lies  *)
(* inside the source directory; then os.walk(source) also yields the       *)
(* destination's files.                                                     *)
(***************************************************************************)
MaxNames == 2

SourceTree ==
    {[dir |-> "a", id |-> i] : i \in 0..MaxNames} \cup {[dir |-> "b", id |-> 1]}

\* get_all_images(destination_directory), as a set of ids
DestinationImages(dst) == {id \in DOMAIN dst : IsChosenImage(ViewName(id))}

\* get_all_images(source_dir), as a set of paths
SourceImages(dst) ==
    {f \in source_files : IsChosenImage(ViewName(f.id))}
        \cup (IF destination_in_source
              THEN {[dir |-> "dest", id |-> id] : id \in DestinationImages(dst)}
              ELSE {})

\* os.path.exists(destination_path)
NeverExists(dst, image_filename) == FALSE
DestinationExists(dst, image_filename) == image_filename \in DOMAIN dst

\* lines 70-89: the copy loop over selected_images; failing are the images
\* whose shutil.copy raises.  Gives the destination and copied_count.
RECURSIVE CopyLoop(_, _, _, _, _)
CopyLoop(selected_images, k, failing, dst, copied_count) ==
    IF k > Len(selected_images)
    THEN [destination |-> dst, copied_count |-> copied_count]
    ELSE LET image == selected_images[k]
             image_filename == image.id
         IN  IF DestinationExists(dst, image_filename)
             THEN CopyLoop(selected_images, k + 1, failing, dst, copied_count)
             ELSE IF image \in failing
             THEN CopyLoop(selected_images, k + 1, failing, dst, copied_count)
             ELSE CopyLoop(selected_images, k + 1, failing,
                           [x \in DOMAIN dst \cup {image_filename} |->
                               IF x = image_filename THEN image ELSE dst[x]],
                           copied_count + 1)

\* random.sample(all_images, num_images): num_images distinct images, any order
Samples(all, n) ==
    {q \in [1..n -> all] : \A a, b \in 1..n : a # b => q[a] # q[b]}

Min(a, b) == IF a < b THEN a ELSE b

\* show_images(destination_directory) as one step: the ids it can remove.
\* The user can mark any of the indices 0..num_images-1, and index k
\* removes image_paths[k].
ShowOutcomes(dst) ==
    UNION { { {paths[k + 1] : k \in marked} :
                marked \in UNION { SUBSET (0..(Len(LoadedImages(paths, unusable)) - 1)) :
                                      unusable \in SUBSET Range(paths) } } :
            paths \in {CollectedPaths(DOMAIN dst)} }

Without(dst, removed) == [id \in DOMAIN dst \ removed |-> dst[id]]

FillInit ==
    /\ source_files \in SUBSET SourceTree
    /\ \E present \in SUBSET (0..MaxNames) :
          destination = [id \in present |-> [dir |-> "old", id |-> id]]
    /\ number_of_images \in 1..MaxNames
    /\ destination_in_source \in BOOLEAN
    /\ fill_pc = "check"
    /\ last_copy = <<>>
    \* the other scripts are idle
    /\ df1 = <<>> /\ df2 = <<>> /\ defase = 0 /\ threshold = 0
    /\ results = <<>> /\ match_i = 0
    /\ files = {} /\ run = 0 /\ matching_timestamps = <<>> /\ rename_pos = 0
    /\ rename_pc = "idle" /\ rename_log = {} /\ skip_log = {}
    /\ csv_listing = <<>> /\ csv_pos = 0 /\ csv_changed = {} /\ csv_pc = "idle"
    /\ csv_content = <<>> /\ new_image_path = <<>> /\ csv_pass = 0
    /\ csv_original = <<>> /\ csv_first = <<>>
    /\ video_files = <<>> /\ task = <<>> /\ consumed = 0 /\ pool_pc = "idle"
    /\ written = {}
    /\ directory = {} /\ all_images = <<>> /\ gai_pc = "idle"
    /\ view_dir = {} /\ image_paths = <<>> /\ images = <<>>
    /\ index_actual_image = 0 /\ images_to_delete = <<>> /\ view_pc = "idle"
    /\ delete_pos = 0 /\ delete_attempts = <<>> /\ key_log = <<>>
    /\ up_pressed = {}
    /\ log_lines = <<>> /\ log_columns = 0 /\ log_pos = 0 /\ parsed_entries = <<>>
    /\ errors = <<>> /\ log_pc = "idle" /\ log_df = <<>>

current_count == Cardinality(DestinationImages(destination))

\* lines 249-255: enough images already -- show them and return
FillShowAndReturn ==
    /\ fill_pc = "check"
    /\ current_count >= number_of_images
    /\ \E removed \in ShowOutcomes(destination) :
          destination' = Without(destination, removed)
    /\ fill_pc' = "returned"
    /\ UNCHANGED <<source_files, number_of_images, destination_in_source, last_copy>>
    /\ UNCHANGED notFill

\* lines 257-261: copy_images(source, destination, remaining_images)
FillCopy ==
    /\ fill_pc = "check"
    /\ current_count < number_of_images
    /\ \E remaining_images \in {number_of_images - current_count},
          all \in {SourceImages(destination)} :
          \E selected_images \in Samples(all, Min(remaining_images, Cardinality(all))) :
             \E failing \in SUBSET Range(selected_images) :
                \E out \in {CopyLoop(selected_images, 1, failing, destination, 0)} :
                   /\ destination' = out.destination
                   /\ last_copy' = [before       |-> destination,
                                    num_images   |-> remaining_images,
                                    copied_count |-> out.copied_count]
    /\ fill_pc' = "copied"
    /\ UNCHANGED <<source_files, number_of_images, destination_in_source>>
    /\ UNCHANGED notFill

\* lines 264-269: images were copied -- show them, then the recursive call
FillShowAndRecurse ==
    /\ fill_pc = "copied"
    /\ last_copy.copied_count > 0
    /\ \E removed \in ShowOutcomes(destination) :
          destination' = Without(destination, removed)
    /\ fill_pc' = "check"
    /\ UNCHANGED <<source_files, number_of_images, destination_in_source, last_copy>>
    /\ UNCHANGED notFill

\* lines 264, 269: nothing was copied -- the recursive call at once
FillRecurse ==
    /\ fill_pc = "copied"
    /\ last_copy.copied_count = 0
    /\ fill_pc' = "check"
    /\ UNCHANGED <<source_files, destination, number_of_images,
                   destination_in_source, last_copy>>
    /\ UNCHANGED notFill

NextFill == FillShowAndReturn \/ FillCopy \/ FillShowAndRecurse \/ FillRecurse

\* the script runs on as long as it has a step to take
FillSpec == FillInit /\ [][NextFill]_vars /\ WF_vars(NextFill)

\* C5: check_and_fill_images eventually returns.
C5_EventuallyReturns == <>(fill_pc = "returned")

\* C6: when check_and_fill_images has returned, the destination holds at
\* least number_of_images eligible images.
C6_EnoughImagesOnReturn ==
    fill_pc = "returned" => current_count >= number_of_images

-----------------------------------------------------------------------------
(***************************************************************************)
(* matchdepth.py : parse_log_file_to_dataframe                             *)
(*                                                                         *)
(* A line of the file is [hash, fields, blank_end, date_ok]: whether it    *)
(* starts with '#', the number of fields it splits into on ', ', whether   *)
(* its last field is only white space, and whether parse_log_date can      *)
(* parse fields 16..19 of the entry.  log_columns is len(column_names),    *)
(* the number of #LOG lines plus the four date names.  Lines are referred  *)
(* to by their position in the file.                                       *)
(***************************************************************************)
MaxLines == 2
MinFields == 20

\* line.strip().split(', '): strip removes the white space of a blank last
\* field and with it the blank of the last ', ', so that field is lost
EntryFields(line) ==
    IF line.blank_end /\ line.fields > 1 THEN line.fields - 1 ELSE line.fields

FieldCounts == (MinFields - 1)..(MinFields + 1)
LogColumnCounts == {MinFields, MinFields + 1}

LogLines ==
    {[hash |-> TRUE, fields |-> 1, blank_end |-> FALSE, date_ok |-> FALSE]}
        \cup {l \in [hash : {FALSE}, fields : FieldCounts,
                     blank_end : BOOLEAN, date_ok : BOOLEAN] :
                 EntryFields(l) < MinFields => ~l.date_ok}

\* log_entries: the lines that do not start with '#', in file order
log_entries ==
    SelectSeq([k \in 1..Len(log_lines) |-> k], LAMBDA k : ~log_lines[k].hash)

\* parse_log_date: the datetime, or None after a ValueError
parse_log_date(line) == IF line.date_ok THEN "datetime" ELSE "None"

LogInit ==
    /\ log_lines \in SeqsOf(LogLines, 1, MaxLines)
    /\ log_columns \in LogColumnCounts
    /\ log_pos = 1
    /\ parsed_entries = <<>>
    /\ errors = <<>>
    /\ log_pc = "loop"
    /\ log_df = <<>>
    \* the other scripts are idle
    /\ df1 = <<>> /\ df2 = <<>> /\ defase = 0 /\ threshold = 0
    /\ results = <<>> /\ match_i = 0
    /\ files = {} /\ run = 0 /\ matching_timestamps = <<>> /\ rename_pos = 0
    /\ rename_pc = "idle" /\ rename_log = {} /\ skip_log = {}
    /\ csv_listing = <<>> /\ csv_pos = 0 /\ csv_changed = {} /\ csv_pc = "idle"
    /\ csv_content = <<>> /\ new_image_path = <<>> /\ csv_pass = 0
    /\ csv_original = <<>> /\ csv_first = <<>>
    /\ video_files = <<>> /\ task = <<>> /\ consumed = 0 /\ pool_pc = "idle"
    /\ written = {}
    /\ directory = {} /\ all_images = <<>> /\ gai_pc = "idle"
    /\ view_dir = {} /\ image_paths = <<>> /\ images = <<>>
    /\ index_actual_image = 0 /\ images_to_delete = <<>> /\ view_pc = "idle"
    /\ delete_pos = 0 /\ delete_attempts = <<>> /\ key_log = <<>>
    /\ up_pressed = {}
    /\ source_files = {} /\ destination = <<>> /\ number_of_images = 0
    /\ fill_pc = "idle" /\ last_copy = <<>> /\ destination_in_source = FALSE

\* lines 202-222, one iteration of "for entry in log_entries".  A row is
\* the data list: len is its length after parsed_datetime was appended.
LogIteration ==
    /\ log_pc = "loop"
    /\ log_pos \in 1..Len(log_entries)
    /\ LET entry == log_entries[log_pos]
           line  == log_lines[entry]
       IN  \/ /\ EntryFields(line) >= MinFields
              /\ parsed_entries' = Append(parsed_entries,
                    [line |-> entry,
                     len  |-> EntryFields(line) + 1,
                     parsed_datetime |->
                        IF parse_log_date(line) # "None"
                        THEN parse_log_date(line) ELSE "nan"])
              /\ UNCHANGED errors
           \/ /\ EntryFields(line) < MinFields
              /\ errors' = Append(errors, entry)
              /\ UNCHANGED parsed_entries
    /\ log_pos' = log_pos + 1
    /\ UNCHANGED <<log_lines, log_columns, log_pc, log_df>>
    /\ UNCHANGED notLog

\* the cell of the parsed_datetime column, the last of log_columns + 1: a
\* shorter row was filled up with nan behind the value appended to it
FrameRow(row) ==
    [line |-> row.line,
     parsed_datetime |->
        IF row.len = log_columns + 1 THEN row.parsed_datetime ELSE "nan"]

\* lines 224-238: the errors are printed, short rows are filled up, and
\* pd.DataFrame(parsed_entries, columns=...) is built; it raises ValueError
\* when a row has more cells than there are columns.
LogFrame ==
    /\ log_pc = "loop"
    /\ log_pos = Len(log_entries) + 1
    /\ \/ /\ \A r \in 1..Len(parsed_entries) :
                parsed_entries[r].len <= log_columns + 1
          /\ log_df' = [r \in 1..Len(parsed_entries) |-> FrameRow(parsed_entries[r])]
          /\ log_pc' = "returned"
       \/ /\ \E r \in 1..Len(parsed_entries) :
                parsed_entries[r].len > log_columns + 1
          /\ log_pc' = "raised"
          /\ UNCHANGED log_df
    /\ UNCHANGED <<log_lines, log_columns, log_pos, parsed_entries, errors>>
    /\ UNCHANGED notLog

NextLog == LogIteration \/ LogFrame

LogSpec == LogInit /\ [][NextLog]_vars

\* the number of times line k occurs among the rows of the DataFrame
TimesParsed(k) == Cardinality({r \in 1..Len(log_df) : log_df[r].line = k})
\* the number of times line k occurs among the error lines
TimesReported(k) == Cardinality({e \in 1..Len(errors) : errors[e] = k})

\* C12: when parse_log_file_to_dataframe is through, every line that does
\* not start with '#' is exactly once among the rows of the DataFrame or
\* exactly once among the error lines, and never both; it is a row exactly
\* when it splits into at least 20 fields; the rows are in file order; a row
\* whose date does not parse is there with a missing parsed_datetime.
C12_LinesPartitioned ==
    log_pc \in {"returned", "raised"} =>
        /\ \A k \in 1..Len(log_lines) :
              ~log_lines[k].hash =>
                 /\ TimesParsed(k) + TimesReported(k) = 1
                 /\ TimesParsed(k) = 1 <=> EntryFields(log_lines[k]) >= MinFields
                 /\ (EntryFields(log_lines[k]) >= MinFields /\ ~log_lines[k].date_ok)
                       => \E r \in 1..Len(log_df) :
                             /\ log_df[r].line = k
                             /\ log_df[r].parsed_datetime = "nan"
        /\ \A k \in 1..Len(log_lines) :
              log_lines[k].hash => TimesParsed(k) + TimesReported(k) = 0
        /\ \A a, b \in 1..Len(log_df) : a < b => log_df[a].line < log_df[b].line

=============================================================================
